---- MODULE Spec2Model ----
(***************************************************************************)
(* Model of pkg/event_dispatcher/event_dispatcher.go: the EventDispatcher  *)
(* (actions registry, job id counter, snapshot store) and its four public  *)
(* operations AddAction, RemoveAction, HandleEvent and RetryJob.           *)
(*                                                                         *)
(* Every public operation holds d.mu from its first to its last statement  *)
(* (Lock / defer Unlock). Spec takes one operation as one atomic step;     *)
(* FairSpec runs the operations of concurrent callers statement by         *)
(* statement, with d.mu as the only thing that orders them.                *)
(*                                                                         *)
(* Go slices are modelled as they are: a slice is a window (offset,        *)
(* length, capacity) onto a backing array that lives in a heap, so that    *)
(* two slices over the same array see each other's writes.                 *)
(***************************************************************************)
EXTENDS Integers, Sequences, FiniteSets, TLC

\* ------------------------------------------------------------------ bounds

\* A behaviour makes at most MaxCalls calls to the dispatcher.
MaxCalls == 4

\* A behaviour of the concurrent callers makes at most MaxConcCalls calls.
MaxConcCalls == 4

\* ------------------------------------------------------------- value sets

\* The names of the actions the callers register (the test file's three).
Names == {"straight_check", "divider", "empty_action"}

\* The Name of the zero action.Action value (an array slot never written).
ZeroName == ""

\* event.Event is a map; NilEvent is the nil map.
NilEvent == "nil"
Events == {NilEvent, "dividend10_divider5"}

\* context.Context values handed to HandleEvent.
Contexts == {"background", "cancelled"}

\* Job ids a caller may pass to RetryJob when cur is the job id counter:
\* a negative one, the assigned ones, and never assigned ones.
RetryIds(cur) == (0 - 1) .. (cur + 1)

\* What a caller's actions do in one call of the dispatcher: the Do of every
\* action returns nil, or the Do of one of them returns an error (the run stops
\* at the first error, so a second failing action would not be reached).
Failing == Names \cup {ZeroName}

\* ------------------------------------------------------------------ errors

Err(kind, name) == [kind |-> kind, name |-> name]
ErrNil == Err("nil", ZeroName)
ErrorInvalidJobId == Err("invalid job id", ZeroName)
ErrorSucceededJobRetryCall == Err("retry called for a successfully completed job", ZeroName)
ErrActionExists(n) == Err("already exists", n)
ErrActionMissing(n) == Err("doesn't exist", n)
ErrActionFailed(n) == Err("action failed", n)

\* ------------------------------------------------------------ slices, heap

\* No backing array: the array of a nil slice or of a slice of capacity 0.
NoArr == 0

\* Addresses of backing arrays: the registry's, one per job, one in transit.
ArrIds == 1 .. (MaxCalls + 2)

MkSlice(a, o, l, c) ==
    [arr |-> IF c = 0 THEN NoArr ELSE a, off |-> IF c = 0 THEN 0 ELSE o, len |-> l, cap |-> c]

\* var s []T, and make([]T, 0)
NilSlice == MkSlice(NoArr, 0, 0, 0)

\* s[i] for 0 <= i < len(s)
Index(h, s, i) == h[s.arr][s.off + i + 1]

\* The elements of s, first to last.
View(h, s) == [i \in 1 .. s.len |-> Index(h, s, i - 1)]

\* s[lo:]
SliceFrom(s, lo) == MkSlice(s.arr, s.off + lo, s.len - lo, s.cap - lo)

\* s[:hi]
SliceTo(s, hi) == MkSlice(s.arr, s.off, hi, s.cap)

\* s[:0:0]
SliceEmpty(s) == MkSlice(s.arr, s.off, 0, 0)

\* Capacity of the array append allocates when newLen exceeds oldCap
\* (runtime growslice, below its 256-element threshold).
GrowCap(oldCap, newLen) == IF newLen > 2 * oldCap THEN newLen ELSE 2 * oldCap

FreshArr(h) == CHOOSE a \in ArrIds \ DOMAIN h : \A b \in ArrIds \ DOMAIN h : a <= b

\* append(s, xs...): in place when the capacity suffices, else into a new array.
\* xs is read before anything is written (the copy is a memmove).
GoAppend(h, s, xs) ==
    LET n == s.len + Len(xs) IN
    IF Len(xs) = 0 THEN [heap |-> h, slice |-> s]
    ELSE IF n <= s.cap
    THEN [heap |-> [h EXCEPT ![s.arr] =
                       [i \in 1 .. Len(@) |->
                           IF i > s.off + s.len /\ i <= s.off + n
                           THEN xs[i - s.off - s.len] ELSE @[i]]],
          slice |-> MkSlice(s.arr, s.off, n, s.cap)]
    ELSE LET c == GrowCap(s.cap, n)
             a == FreshArr(h)
             old == View(h, s)
             arr == [i \in 1 .. c |->
                        IF i <= s.len THEN old[i]
                        ELSE IF i <= n THEN xs[i - s.len] ELSE ZeroName]
         IN [heap |-> (a :> arr) @@ h, slice |-> MkSlice(a, 0, n, c)]

\* ---------------------------------------------------------------- state

VARIABLES
    heap,          \* backing arrays of the []action.Action slices, by address
    actions,       \* d.actions: a slice
    currentJobId,  \* d.currentJobId
    snapshots,     \* d.snapshots: job id -> the snapshot stored under it
    clock,         \* number of time.Now() readings taken so far
    last,          \* the call that returned last: arguments, results, the Do calls it made
    hist,          \* per dispatched job: the registry at dispatch and what has run since
    handled,       \* number of HandleEvent calls made so far
    ncalls,        \* number of calls made to the dispatcher so far
    mu,            \* d.mu: TRUE while locked
    stacks         \* per caller: the frames of its calls in progress, innermost last

vars == <<heap, actions, currentJobId, snapshots, clock, last, hist, handled, ncalls,
          mu, stacks>>

EmptyMap == [x \in {} |-> x]

\* The registry as the sequence of its actions' names.
Registry == View(heap, actions)

\* The names still to process of the snapshot stored under job id j.
Pending(j) == View(heap, snapshots[j].actionsToProcess)

ResultNames(rs) == [i \in 1 .. Len(rs) |-> rs[i].Name]

Range(f) == {f[x] : x \in DOMAIN f}

IsPrefix(p, q) == Len(p) <= Len(q) /\ \A i \in 1 .. Len(p) : p[i] = q[i]

\* The arrays some slice of the dispatcher still addresses.
Live(acts, snaps) ==
    ({acts.arr} \cup {snaps[j].actionsToProcess.arr : j \in DOMAIN snaps}) \ {NoArr}

\* The slices of the dispatcher that address array a.
Owners(a, acts, snaps) ==
    {s \in {acts} \cup {snaps[j].actionsToProcess : j \in DOMAIN snaps} : s.arr = a}

\* The slots of array a inside the window of some slice.
Covered(a, acts, snaps) ==
    UNION {(s.off + 1) .. (s.off + s.len) : s \in Owners(a, acts, snaps)}

\* The address array a is kept under: addresses are compared, never read, so
\* the live arrays are numbered by their first owner (the registry, then the
\* jobs by id).
Addr(a, acts, snaps) ==
    IF a = NoArr THEN NoArr
    ELSE IF acts.arr = a THEN 1
    ELSE 2 + CHOOSE j \in DOMAIN snaps :
                 /\ snaps[j].actionsToProcess.arr = a
                 /\ \A k \in DOMAIN snaps : snaps[k].actionsToProcess.arr = a => j <= k

\* The memory the dispatcher can still reach: no array that no slice addresses,
\* and ZeroName in the slots outside every slice's window (append writes such a
\* slot before any slice covers it, so its old content is never read).
Collect(h, acts, snaps) ==
    LET live == Live(acts, snaps)
        move(s) == [s EXCEPT !.arr = Addr(s.arr, acts, snaps)]
    IN [heap |-> [b \in {Addr(a, acts, snaps) : a \in live} |->
                     LET a == CHOOSE x \in live : Addr(x, acts, snaps) = b
                     IN [i \in 1 .. Len(h[a]) |->
                            IF i \in Covered(a, acts, snaps) THEN h[a][i] ELSE ZeroName]],
        actions |-> move(acts),
        snapshots |-> [j \in DOMAIN snaps |->
                          [snaps[j] EXCEPT !.actionsToProcess = move(@)]]]

\* --------------------------------------------------------- the Do callback

\* action.Do(ctx, event): the caller's code. Whether it returns an error is an
\* input of the run (fails: the name whose Do returns an error in this call of
\* the dispatcher, if any); its output stands for whatever map it builds.
DoFails(name, fails) == name = fails

DoOutput(name, event) == <<"output", name, event>>

DoCall(name, ctx, event, failed) ==
    [Name |-> name, Context |-> ctx, Input |-> event, failed |-> failed]

\* --------------------------------------------------------------- snapshots

\* &snapshot{Id: jobId, Event: event, Context: ctx, Success: false,
\*           actionsToProcess: actions}; ActionsResults is left nil.
NewSnapshot(jobId, event, ctx, acts) ==
    [Id |-> jobId, Event |-> event, ActionsResults |-> <<>>, Context |-> ctx,
     Success |-> FALSE, actionsToProcess |-> acts]

\* actionResult{Name, Input, Output, Timestamp: time.Now().String()}
ActionResult(name, event, output, now) ==
    [Name |-> name, Input |-> event, Output |-> output, Timestamp |-> now]

\* MoreToProcess with the loop stopping one action early.
MoreToProcessButLast(result) == result.actionsToProcess.len > 1

\* the for loop's condition: len(result.actionsToProcess) > 0
MoreToProcess(result) == result.actionsToProcess.len > 0

\* the for loop's post statement: result.actionsToProcess = result.actionsToProcess[1:]
Advance(result) == [result EXCEPT !.actionsToProcess = SliceFrom(@, 1)]

\* result.ActionsResults = append(result.ActionsResults, actionResult{...})
Record(result, name, event, output, now) ==
    [result EXCEPT !.ActionsResults = Append(@, ActionResult(name, event, output, now))]

\* OnFailure with the loop's post statement run on the failing action too.
OnFailureSkip(result) == [result EXCEPT !.actionsToProcess = SliceFrom(@, 1)]

\* if err != nil { return fmt.Errorf(...) }: the snapshot is left as it stands.
OnFailure(result) == result

\* Succeed with the assignment forgotten.
SucceedUnset(result) == result

\* result.Success = true
Succeed(result) == [result EXCEPT !.Success = TRUE]

\* StoreSnapshot as a statement after the loop instead of a deferred one: the
\* error return leaves before it, so only a succeeded run is stored.
StoreSnapshotOnSuccess(snaps, jobId, result) ==
    IF result.Success
    THEN [j \in DOMAIN snaps \cup {jobId} |-> IF j = jobId THEN result ELSE snaps[j]]
    ELSE snaps

\* StoreSnapshot with the new snapshot put under every id of the store.
StoreSnapshotAll(snaps, jobId, result) == [j \in DOMAIN snaps \cup {jobId} |-> result]

\* defer func() { d.snapshots[jobId] = result }()
StoreSnapshot(snaps, jobId, result) ==
    [j \in DOMAIN snaps \cup {jobId} |-> IF j = jobId THEN result ELSE snaps[j]]

RECURSIVE RunActionsContinue(_, _, _, _, _, _, _)
\* RunActions with `continue` in place of the error return: a failed action
\* is passed over and the loop goes on with the next one.
RunActionsContinue(h, result, ctx, event, fails, now, calls) ==
    IF ~MoreToProcess(result)
    THEN [result |-> Succeed(result), err |-> ErrNil, clock |-> now, calls |-> calls]
    ELSE LET name == Index(h, result.actionsToProcess, 0) IN
         IF DoFails(name, fails)
         THEN RunActionsContinue(h, Advance(result), ctx, event, fails, now,
                                 Append(calls, DoCall(name, ctx, event, TRUE)))
         ELSE RunActionsContinue(h,
                                 Advance(Record(result, name, event, DoOutput(name, event), now)),
                                 ctx, event, fails, now + 1,
                                 Append(calls, DoCall(name, ctx, event, FALSE)))

RECURSIVE RunActions(_, _, _, _, _, _, _)
\* The loop of handleEventByActions, from the state (result, now, calls) on.
RunActions(h, result, ctx, event, fails, now, calls) ==
    IF ~MoreToProcess(result)
    THEN [result |-> Succeed(result), err |-> ErrNil, clock |-> now, calls |-> calls]
    ELSE LET name == Index(h, result.actionsToProcess, 0) IN
         IF DoFails(name, fails)
         THEN [result |-> OnFailure(result), err |-> ErrActionFailed(name),
               clock |-> now, calls |-> Append(calls, DoCall(name, ctx, event, TRUE))]
         ELSE RunActions(h,
                         Advance(Record(result, name, event, DoOutput(name, event), now)),
                         ctx, event, fails, now + 1,
                         Append(calls, DoCall(name, ctx, event, FALSE)))

\* handleEventByActions with a check of the context before the loop:
\* if err := ctx.Err(); err != nil { return err }
handleEventByActionsCtxChecked(h, snaps, ctx, event, acts, jobId, fails, now) ==
    LET run == RunActions(h, NewSnapshot(jobId, event, ctx, acts), ctx, event, fails, now, <<>>)
    IN IF ctx = "cancelled"
       THEN [snapshots |-> StoreSnapshot(snaps, jobId, NewSnapshot(jobId, event, ctx, acts)),
             err |-> Err("context canceled", ZeroName), clock |-> now, calls |-> <<>>]
       ELSE [snapshots |-> StoreSnapshot(snaps, jobId, run.result),
             err |-> run.err, clock |-> run.clock, calls |-> run.calls]

\* handleEventByActions(ctx, event, actions, jobId): what it stores and returns.
handleEventByActions(h, snaps, ctx, event, acts, jobId, fails, now) ==
    LET run == RunActions(h, NewSnapshot(jobId, event, ctx, acts), ctx, event, fails, now, <<>>)
    IN [snapshots |-> StoreSnapshot(snaps, jobId, run.result),
        err |-> run.err, clock |-> run.clock, calls |-> run.calls]

\* validateRetryJobId without its check of the stored snapshot's Success.
validateRetryJobIdRangeOnly(snaps, jobId) ==
    IF jobId >= Cardinality(DOMAIN snaps) \/ jobId < 0 THEN ErrorInvalidJobId ELSE ErrNil

\* validateRetryJobId with its range check admitting the next id to assign
\* (jobId > len(d.snapshots)): d.snapshots[jobId] is then nil and reading its
\* Success panics.
validateRetryJobIdOffByOne(snaps, jobId) ==
    IF jobId > Cardinality(DOMAIN snaps) \/ jobId < 0 THEN ErrorInvalidJobId
    ELSE IF jobId \notin DOMAIN snaps THEN Err("panic: nil pointer dereference", ZeroName)
    ELSE IF snaps[jobId].Success THEN ErrorSucceededJobRetryCall
    ELSE ErrNil

\* validateRetryJobId(jobId)
validateRetryJobId(snaps, jobId) ==
    IF jobId >= Cardinality(DOMAIN snaps) \/ jobId < 0 THEN ErrorInvalidJobId
    ELSE IF snaps[jobId].Success THEN ErrorSucceededJobRetryCall
    ELSE ErrNil

\* RetryActions with the retry run over the registry of the moment.
RetryActionsRegistry(storedSnapshot, registry) == registry

\* RetryContext with a new root context in place of the stored one:
\* context.Background()
RetryContextBackground(storedSnapshot) == "background"

\* The context RetryJob hands to handleEventByActions: storedSnapshot.Context
RetryContext(storedSnapshot) == storedSnapshot.Context

\* The event RetryJob hands to handleEventByActions: storedSnapshot.Event
RetryEvent(storedSnapshot) == storedSnapshot.Event

\* The actions RetryJob hands to handleEventByActions.
RetryActions(storedSnapshot, registry) == storedSnapshot.actionsToProcess

\* CopyActions without the copy: actions := d.actions
CopyActionsShared(h, acts) == [heap |-> h, slice |-> acts]

\* actions := append(d.actions[:0:0], d.actions...)
CopyActions(h, acts) == GoAppend(h, SliceEmpty(acts), View(h, acts))

\* NextJobId with the increment forgotten.
NextJobIdSame(cur) == cur

\* jobId := d.currentJobId; d.currentJobId++
NextJobId(cur) == cur + 1

\* FindAction with the search looking at the first registered action only.
FindActionFirstOnly(h, acts, name) ==
    IF acts.len > 0 /\ Index(h, acts, 0) = name THEN 0 ELSE 0 - 1

\* The index (from 0) of the first registered action called name, or -1.
FindAction(h, acts, name) ==
    IF \E i \in 0 .. acts.len - 1 : Index(h, acts, i) = name
    THEN CHOOSE i \in 0 .. acts.len - 1 :
             /\ Index(h, acts, i) = name
             /\ \A k \in 0 .. i - 1 : Index(h, acts, k) # name
    ELSE 0 - 1

\* d.actions = append(d.actions, act)
AppendAction(h, acts, name) == GoAppend(h, acts, <<name>>)

\* DeleteAction by moving the last action into the hole:
\* d.actions[idx] = d.actions[len(d.actions)-1]; d.actions = d.actions[:len(d.actions)-1]
DeleteActionSwapLast(h, acts, idx) ==
    [heap |-> [h EXCEPT ![acts.arr][acts.off + idx + 1] = Index(h, acts, acts.len - 1)],
     slice |-> SliceTo(acts, acts.len - 1)]

\* d.actions = append(d.actions[:idx], d.actions[idx+1:]...)
DeleteAction(h, acts, idx) ==
    GoAppend(h, SliceTo(acts, idx), View(h, SliceFrom(acts, idx + 1)))

\* ------------------------------------------------------------------- calls

\* The goroutines that call the dispatcher.
Callers == {"g1", "g2"}

Call(op, name, jobId, ctx, event, err, calls) ==
    [op |-> op, action |-> name, jobId |-> jobId, ctx |-> ctx, event |-> event,
     err |-> err, calls |-> calls]

NoJob == 0 - 2

Init ==
    /\ heap = EmptyMap
    /\ actions = NilSlice
    /\ currentJobId = 0
    /\ snapshots = EmptyMap
    /\ clock = 0
    /\ last = Call("NewEventDispatcher", ZeroName, NoJob, "background", NilEvent, ErrNil, <<>>)
    /\ hist = EmptyMap
    /\ handled = 0
    /\ ncalls = 0
    /\ mu = FALSE
    /\ stacks = [c \in Callers |-> <<>>]

\* What hist keeps of a job after a run that made the Do calls `calls`: the
\* actions that have returned nil for it so far, and the one that returned an
\* error in this run (ZeroName if none did).
Ran(h, calls) ==
    [h EXCEPT !.done = @ \cup {calls[i].Name : i \in {k \in 1 .. Len(calls) : ~calls[k].failed}},
              !.failed = IF Len(calls) > 0 /\ calls[Len(calls)].failed
                         THEN calls[Len(calls)].Name ELSE ZeroName]

AddAction(name) ==
    LET idx == FindAction(heap, actions, name)
        app == AppendAction(heap, actions, name)
    IN /\ IF idx >= 0
          THEN /\ UNCHANGED <<heap, actions, snapshots>>
               /\ last' = Call("AddAction", name, NoJob, "background", NilEvent,
                               ErrActionExists(name), <<>>)
          ELSE /\ heap' = Collect(app.heap, app.slice, snapshots).heap
               /\ actions' = Collect(app.heap, app.slice, snapshots).actions
               /\ snapshots' = Collect(app.heap, app.slice, snapshots).snapshots
               /\ last' = Call("AddAction", name, NoJob, "background", NilEvent, ErrNil, <<>>)
       /\ UNCHANGED <<currentJobId, clock, hist, handled>>

RemoveAction(name) ==
    LET idx == FindAction(heap, actions, name)
        del == DeleteAction(heap, actions, idx)
    IN /\ IF idx >= 0
          THEN /\ heap' = Collect(del.heap, del.slice, snapshots).heap
               /\ actions' = Collect(del.heap, del.slice, snapshots).actions
               /\ snapshots' = Collect(del.heap, del.slice, snapshots).snapshots
               /\ last' = Call("RemoveAction", name, NoJob, "background", NilEvent, ErrNil, <<>>)
          ELSE /\ UNCHANGED <<heap, actions, snapshots>>
               /\ last' = Call("RemoveAction", name, NoJob, "background", NilEvent,
                               ErrActionMissing(name), <<>>)
       /\ UNCHANGED <<currentJobId, clock, hist, handled>>

HandleEvent(ctx, event, fails) ==
    /\ LET cp == CopyActions(heap, actions)
           jobId == currentJobId
           r == handleEventByActions(cp.heap, snapshots, ctx, event, cp.slice, jobId, fails, clock)
       IN /\ currentJobId' = NextJobId(currentJobId)
          /\ heap' = Collect(cp.heap, actions, r.snapshots).heap
          /\ actions' = Collect(cp.heap, actions, r.snapshots).actions
          /\ snapshots' = Collect(cp.heap, actions, r.snapshots).snapshots
          /\ clock' = r.clock
          /\ last' = Call("HandleEvent", ZeroName, jobId, ctx, event, r.err, r.calls)
          /\ hist' = [j \in DOMAIN hist \cup {jobId} |->
                         IF j = jobId
                         THEN Ran([plan |-> Registry, ctx |-> ctx, event |-> event,
                                   done |-> {}, failed |-> ZeroName], r.calls)
                         ELSE hist[j]]
          /\ handled' = handled + 1

RetryJob(jobId, fails) ==
    LET v == validateRetryJobId(snapshots, jobId) IN
    IF v # ErrNil
    THEN /\ last' = Call("RetryJob", ZeroName, jobId, "background", NilEvent, v, <<>>)
         /\ UNCHANGED <<heap, actions, currentJobId, snapshots, clock, hist, handled>>
    ELSE LET storedSnapshot == snapshots[jobId]
             r == handleEventByActions(heap, snapshots, RetryContext(storedSnapshot),
                                       RetryEvent(storedSnapshot),
                                       RetryActions(storedSnapshot, actions), jobId, fails, clock)
         IN /\ heap' = Collect(heap, actions, r.snapshots).heap
            /\ actions' = Collect(heap, actions, r.snapshots).actions
            /\ snapshots' = Collect(heap, actions, r.snapshots).snapshots
            /\ clock' = r.clock
            /\ last' = Call("RetryJob", ZeroName, jobId, RetryContext(storedSnapshot),
                            RetryEvent(storedSnapshot), r.err, r.calls)
            /\ hist' = [hist EXCEPT ![jobId] = Ran(@, r.calls)]
            /\ UNCHANGED <<currentJobId, handled>>

\* One call of a caller, while the behaviour has calls left: the call takes
\* d.mu, runs and releases it, no other call in progress.
Called(call) ==
    /\ ncalls < MaxCalls
    /\ ncalls' = ncalls + 1
    /\ call
    /\ UNCHANGED <<mu, stacks>>

Next ==
    \/ \E name \in Names : Called(AddAction(name))
    \/ \E name \in Names : Called(RemoveAction(name))
    \/ \E ctx \in Contexts, event \in Events, fails \in Failing :
           Called(HandleEvent(ctx, event, fails))
    \/ \E jobId \in RetryIds(currentJobId), fails \in Failing : Called(RetryJob(jobId, fails))

Spec == Init /\ [][Next]_vars

\* ------------------------------------------------------------- properties

\* ------------------------------------------------------ concurrent callers

\* What the concurrent callers pass: two of the action names, the present
\* event, a live context.
ConcNames == {"straight_check", "divider"}
ConcEvents == Events \ {NilEvent}
ConcContexts == {"background"}

\* The result variable of handleEventByActions before it is assigned.
NoResult == NewSnapshot(NoJob, NilEvent, "background", NilSlice)

\* The frame of a call at its first statement, d.mu.Lock(): the arguments,
\* and the locals not yet assigned (idx, the slice in hand, result, err) with
\* the Do calls made so far.
Frame(op, name, jobId, ctx, event) ==
    [pc |-> "lock", op |-> op, action |-> name, jobId |-> jobId, ctx |-> ctx,
     event |-> event, idx |-> 0 - 1, slice |-> NilSlice, result |-> NoResult,
     calls |-> <<>>, err |-> ErrNil, reentered |-> FALSE]

\* The calls a caller can make when cur is the job id counter.
CallsOf(cur) ==
    {Frame("AddAction", n, NoJob, "background", NilEvent) : n \in ConcNames}
    \cup {Frame("RemoveAction", n, NoJob, "background", NilEvent) : n \in ConcNames}
    \cup {Frame("HandleEvent", ZeroName, NoJob, ctx, ev) : ctx \in ConcContexts, ev \in ConcEvents}
    \cup {Frame("RetryJob", ZeroName, j, "background", NilEvent) : j \in RetryIds(cur)}

Depth(c) == Len(stacks[c])

\* The frame caller c is executing.
Top(c) == stacks[c][Depth(c)]

\* Caller c is in a call whose next statement is p.
At(c, p) == Depth(c) > 0 /\ Top(c).pc = p

SetTop(c, f) == [stacks EXCEPT ![c][Depth(c)] = f]

Push(c, f) == [stacks EXCEPT ![c] = Append(@, f)]

\* The statement that follows d.mu.Lock(); defer d.mu.Unlock() in op.
FirstStep(op) ==
    IF op \in {"AddAction", "RemoveAction"} THEN "find"
    ELSE IF op = "HandleEvent" THEN "copy" ELSE "validate"

\* CanLock with a Lock that never waits.
CanLockAlways(locked) == TRUE

\* d.mu.Lock() returns only when the mutex is unlocked (sync.Mutex is not
\* reentrant: the goroutine that holds it waits like any other).
CanLock(locked) == ~locked

\* DeferredUnlock as a plain d.mu.Unlock() before the final `return nil`:
\* the error returns leave the mutex locked.
UnlockOnNilOnly(locked, err) == IF err = ErrNil THEN FALSE ELSE locked

\* defer d.mu.Unlock(): the mutex after the call has returned err.
DeferredUnlock(locked, err) == FALSE

\* A caller not in a call calls the dispatcher.
Begin(c) ==
    /\ Depth(c) = 0
    /\ ncalls < MaxConcCalls
    /\ \E f \in CallsOf(currentJobId) : stacks' = Push(c, f)
    /\ ncalls' = ncalls + 1
    /\ UNCHANGED <<heap, actions, currentJobId, snapshots, clock, last, hist, handled, mu>>

\* d.mu.Lock()
Lock(c) ==
    /\ At(c, "lock")
    /\ CanLock(mu)
    /\ mu' = TRUE
    /\ stacks' = SetTop(c, [Top(c) EXCEPT !.pc = FirstStep(Top(c).op)])
    /\ UNCHANGED <<heap, actions, currentJobId, snapshots, clock, last, hist, handled, ncalls>>

\* AddAction / RemoveAction: the search of d.actions for the name, and the
\* error return that depends on it.
Find(c) ==
    /\ At(c, "find")
    /\ LET f == Top(c)
           idx == FindAction(heap, actions, f.action)
           refused == IF f.op = "AddAction" THEN idx >= 0 ELSE idx < 0
           err == IF f.op = "AddAction" THEN ErrActionExists(f.action)
                  ELSE ErrActionMissing(f.action)
       IN stacks' = SetTop(c, IF refused
                              THEN [f EXCEPT !.pc = "unlock", !.err = err]
                              ELSE [f EXCEPT !.pc = "append", !.idx = idx])
    /\ UNCHANGED <<heap, actions, currentJobId, snapshots, clock, last, hist, handled, ncalls, mu>>

\* AddAction / RemoveAction: the call of append, which writes the array.
AppendStep(c) ==
    /\ At(c, "append")
    /\ LET f == Top(c)
           r == IF f.op = "AddAction" THEN AppendAction(heap, actions, f.action)
                ELSE DeleteAction(heap, actions, f.idx)
       IN /\ heap' = r.heap
          /\ stacks' = SetTop(c, [f EXCEPT !.pc = "assign", !.slice = r.slice])
    /\ UNCHANGED <<actions, currentJobId, snapshots, clock, last, hist, handled, ncalls, mu>>

\* AddAction / RemoveAction: d.actions = (what append returned); return nil
Assign(c) ==
    /\ At(c, "assign")
    /\ actions' = Top(c).slice
    /\ stacks' = SetTop(c, [Top(c) EXCEPT !.pc = "unlock"])
    /\ UNCHANGED <<heap, currentJobId, snapshots, clock, last, hist, handled, ncalls, mu>>

\* HandleEvent: actions := append(d.actions[:0:0], d.actions...)
Copy(c) ==
    /\ At(c, "copy")
    /\ LET cp == CopyActions(heap, actions)
       IN /\ heap' = cp.heap
          /\ stacks' = SetTop(c, [Top(c) EXCEPT !.pc = "takeid", !.slice = cp.slice])
    /\ UNCHANGED <<actions, currentJobId, snapshots, clock, last, hist, handled, ncalls, mu>>

\* HandleEvent: jobId := d.currentJobId
TakeId(c) ==
    /\ At(c, "takeid")
    /\ LET f == Top(c)
           jobId == currentJobId
       IN /\ stacks' = SetTop(c, [f EXCEPT !.pc = "inc", !.jobId = jobId])
          /\ hist' = [j \in DOMAIN hist \cup {jobId} |->
                         IF j = jobId
                         THEN [plan |-> View(heap, f.slice), ctx |-> f.ctx, event |-> f.event,
                               done |-> {}, failed |-> ZeroName]
                         ELSE hist[j]]
    /\ handled' = handled + 1
    /\ UNCHANGED <<heap, actions, currentJobId, snapshots, clock, last, ncalls, mu>>

\* HandleEvent: d.currentJobId++
Inc(c) ==
    /\ At(c, "inc")
    /\ currentJobId' = NextJobId(currentJobId)
    /\ stacks' = SetTop(c, [Top(c) EXCEPT !.pc = "enter"])
    /\ UNCHANGED <<heap, actions, snapshots, clock, last, hist, handled, ncalls, mu>>

\* RetryJob: if err := d.validateRetryJobId(jobId); err != nil { return err }
Validate(c) ==
    /\ At(c, "validate")
    /\ LET f == Top(c)
           v == validateRetryJobId(snapshots, f.jobId)
       IN stacks' = SetTop(c, IF v # ErrNil
                              THEN [f EXCEPT !.pc = "unlock", !.err = v]
                              ELSE [f EXCEPT !.pc = "load"])
    /\ UNCHANGED <<heap, actions, currentJobId, snapshots, clock, last, hist, handled, ncalls, mu>>

\* RetryJob: storedSnapshot := d.snapshots[jobId], and the arguments it gives
\* to handleEventByActions.
Load(c) ==
    /\ At(c, "load")
    /\ LET f == Top(c)
           storedSnapshot == snapshots[f.jobId]
       IN stacks' = SetTop(c, [f EXCEPT !.pc = "enter",
                                        !.ctx = RetryContext(storedSnapshot),
                                        !.event = RetryEvent(storedSnapshot),
                                        !.slice = RetryActions(storedSnapshot, actions)])
    /\ UNCHANGED <<heap, actions, currentJobId, snapshots, clock, last, hist, handled, ncalls, mu>>

\* handleEventByActions: result := &snapshot{...} and the defer of the store.
Enter(c) ==
    /\ At(c, "enter")
    /\ LET f == Top(c)
       IN stacks' = SetTop(c, [f EXCEPT !.pc = "loop",
                                        !.result = NewSnapshot(f.jobId, f.event, f.ctx, f.slice)])
    /\ UNCHANGED <<heap, actions, currentJobId, snapshots, clock, last, hist, handled, ncalls, mu>>

\* handleEventByActions: the loop condition; result.Success = true; return nil
\* when it is false, the call of the first pending action's Do when it is true.
Loop(c) ==
    /\ At(c, "loop")
    /\ LET f == Top(c)
       IN stacks' = SetTop(c, IF MoreToProcess(f.result)
                              THEN [f EXCEPT !.pc = "do"]
                              ELSE [f EXCEPT !.pc = "store", !.result = Succeed(f.result)])
    /\ UNCHANGED <<heap, actions, currentJobId, snapshots, clock, last, hist, handled, ncalls, mu>>

\* Inside Do, the action calls an operation of the dispatcher.
Reenter(c) ==
    /\ At(c, "do")
    /\ ~Top(c).reentered
    /\ \E f \in CallsOf(currentJobId) : stacks' = Push(c, f)
    /\ UNCHANGED <<heap, actions, currentJobId, snapshots, clock, last, hist, handled, ncalls, mu>>

\* Do returns, nil or an error, and the loop body goes on from it: the error
\* return, or the append of the result and the loop's post statement.
DoEnd(c) ==
    /\ At(c, "do")
    /\ LET f == Top(c)
           name == Index(heap, f.result.actionsToProcess, 0)
       IN \E fails \in {name, ZeroName} :
              IF DoFails(name, fails)
              THEN /\ stacks' = SetTop(c, [f EXCEPT !.pc = "store",
                                                    !.result = OnFailure(f.result),
                                                    !.err = ErrActionFailed(name),
                                                    !.calls = Append(@, DoCall(name, f.ctx, f.event, TRUE))])
                   /\ clock' = clock
              ELSE /\ stacks' = SetTop(c, [f EXCEPT !.pc = "loop",
                                                    !.result = Advance(Record(f.result, name, f.event,
                                                                              DoOutput(name, f.event), clock)),
                                                    !.calls = Append(@, DoCall(name, f.ctx, f.event, FALSE))])
                   /\ clock' = clock + 1
    /\ UNCHANGED <<heap, actions, currentJobId, snapshots, last, hist, handled, ncalls, mu>>

\* handleEventByActions returns: the deferred d.snapshots[jobId] = result
Store(c) ==
    /\ At(c, "store")
    /\ LET f == Top(c)
       IN /\ snapshots' = StoreSnapshot(snapshots, f.jobId, f.result)
          /\ hist' = [hist EXCEPT ![f.jobId] = Ran(@, f.calls)]
          /\ stacks' = SetTop(c, [f EXCEPT !.pc = "unlock"])
    /\ UNCHANGED <<heap, actions, currentJobId, clock, last, handled, ncalls, mu>>

\* The operation returns: the deferred d.mu.Unlock(), and the caller (the Do
\* that made the call, if it was made from inside one) goes on.
Unlock(c) ==
    /\ At(c, "unlock")
    /\ LET f == Top(c)
           n == Depth(c)
       IN /\ mu' = DeferredUnlock(mu, f.err)
          /\ stacks' = [stacks EXCEPT ![c] =
                           IF n = 1 THEN <<>>
                           ELSE [SubSeq(@, 1, n - 1) EXCEPT ![n - 1].reentered = TRUE]]
          /\ last' = IF n = 1
                     THEN Call(f.op, f.action, f.jobId, f.ctx, f.event, f.err, f.calls)
                     ELSE last
    /\ UNCHANGED <<heap, actions, currentJobId, snapshots, clock, hist, handled, ncalls>>

\* A statement of caller c after its Lock.
Step(c) ==
    \/ Find(c) \/ AppendStep(c) \/ Assign(c)
    \/ Copy(c) \/ TakeId(c) \/ Inc(c)
    \/ Validate(c) \/ Load(c)
    \/ Enter(c) \/ Loop(c) \/ DoEnd(c) \/ Store(c)
    \/ Unlock(c)

ConcNext ==
    \E c \in Callers :
        \/ Begin(c)
        \/ Lock(c)
        \/ Step(c)
        \/ Reenter(c)

\* The scheduler runs every goroutine that can take a step, a Do that was
\* called returns unless it waits for the dispatcher, and a goroutine waiting
\* in Lock gets the mutex if it is unlocked again and again (sync.Mutex hands
\* it to a starving waiter). No caller has to call, no Do has to call back.
FairSpec ==
    /\ Init
    /\ [][ConcNext]_vars
    /\ \A c \in Callers : WF_vars(Step(c)) /\ SF_vars(Lock(c))

\* The last call ran handleEventByActions (it passed RetryJob's validation).
RanEngine ==
    \/ last.op = "HandleEvent"
    \/ last.op = "RetryJob" /\ last.err \notin {ErrorInvalidJobId, ErrorSucceededJobRetryCall}

\* The names of the actions whose Do a call invoked, in the order of the calls.
CallNames(calls) == [i \in 1 .. Len(calls) |-> calls[i].Name]

\* The position in plan of the action called name (0 if it is not in it).
PlanIndex(plan, name) ==
    IF \E i \in 1 .. Len(plan) : plan[i] = name
    THEN CHOOSE i \in 1 .. Len(plan) : plan[i] = name
    ELSE 0

\* C1: for every job, after every execution attempt, the number of stored
\* ActionsResults plus the number of pending actions equals the number of
\* actions registered when the job was dispatched. (Stated of the jobs of
\* present events, the only jobs the specification lets exist.)
C1_PlanLengthConserved ==
    \A j \in DOMAIN snapshots :
        hist[j].event # NilEvent
        => Len(snapshots[j].ActionsResults) + snapshots[j].actionsToProcess.len
               = Len(hist[j].plan)

\* C2: for every RetryJob(j) that runs the engine, the results stored for j
\* before the call are a prefix of the results stored for j after it. (Stated
\* of the jobs of present events, as C1 is.)
C2_ResultsAppendOnly ==
    [][(last'.op = "RetryJob" /\ RanEngine' /\ last'.event # NilEvent)
           => IsPrefix(snapshots[last'.jobId].ActionsResults,
                       snapshots'[last'.jobId].ActionsResults)]_vars

\* C3: a RetryJob that runs the engine invokes no action that has already
\* returned successfully for the job; it invokes the job's actions starting at
\* the one that failed in the previous attempt and goes on in plan order, to
\* the end of the plan unless one of them fails (which is then the last call).
C3_RetryResumesAtFailure ==
    [][(last'.op = "RetryJob" /\ RanEngine')
           => LET h == hist[last'.jobId]
                  k == PlanIndex(h.plan, h.failed)
                  names == CallNames(last'.calls)
                  n == Len(names)
              IN /\ k >= 1
                 /\ n >= 1
                 /\ k + n - 1 <= Len(h.plan)
                 /\ names = SubSeq(h.plan, k, k + n - 1)
                 /\ \A i \in 1 .. n : names[i] \notin h.done
                 /\ \A i \in 1 .. n - 1 : ~last'.calls[i].failed
                 /\ (last'.err = ErrNil <=> ~last'.calls[n].failed)
                 /\ (last'.err = ErrNil => k + n - 1 = Len(h.plan))]_vars

\* C3's case: a retry ran actions of a job whose earlier attempt had completed
\* at least one action before it failed.
C3_Witness ==
    /\ last.op = "RetryJob"
    /\ RanEngine
    /\ Len(last.calls) >= 1
    /\ last.calls[1].Name # hist[last.jobId].plan[1]

\* C4: AddAction and RemoveAction change no job's pending list; a RetryJob
\* executes actions of the pending list the job had before the call, in its
\* order (all of them when none fails); a HandleEvent plans exactly the
\* registry of the moment it is called.
C4_PlanFixedAtDispatch ==
    [][/\ last'.op \in {"AddAction", "RemoveAction"}
          => \A j \in DOMAIN snapshots :
                 /\ j \in DOMAIN snapshots'
                 /\ Pending(j)' = Pending(j)
       /\ (last'.op = "RetryJob" /\ RanEngine')
          => /\ IsPrefix(CallNames(last'.calls), Pending(last'.jobId))
             /\ last'.err = ErrNil => CallNames(last'.calls) = Pending(last'.jobId)
             /\ Range(CallNames(last'.calls)) \subseteq Range(hist[last'.jobId].plan)
       /\ last'.op = "HandleEvent"
          => /\ IsPrefix(CallNames(last'.calls), Registry)
             /\ \A j \in DOMAIN snapshots' :
                    j = last'.jobId
                    => ResultNames(snapshots'[j].ActionsResults) \o Pending(j)' = Registry]_vars

\* C4's case: a retry ran actions of a job although the registry is no longer
\* the one the job was dispatched with.
C4_Witness ==
    /\ last.op = "RetryJob"
    /\ RanEngine
    /\ Len(last.calls) >= 1
    /\ hist[last.jobId].plan # Registry

\* C5: the n-th call of HandleEvent (n = 0, 1, 2, ...) returns job id n and the
\* job id counter equals the number of HandleEvent calls made, whatever the
\* other calls in between and whatever the jobs' outcomes.
C5_JobIdsCountCalls ==
    /\ currentJobId = handled
    /\ last.op = "HandleEvent" => last.jobId = handled - 1

\* C5's case: a third HandleEvent returned after one job failed and one
\* succeeded.
C5_Witness ==
    /\ last.op = "HandleEvent"
    /\ handled = 3
    /\ \E i, j \in DOMAIN snapshots : snapshots[i].Success /\ ~snapshots[j].Success

\* The error the specification names for an absent event (the code defines
\* no such value).
ErrorInvalidEvent == Err("invalid event", ZeroName)

\* C6: HandleEvent with a nil event fails with InvalidEventError, invokes no
\* action, does not advance the job id counter and stores no snapshot.
C6_NilEventRejected ==
    [][(last'.op = "HandleEvent" /\ last'.event = NilEvent)
           => /\ last'.err = ErrorInvalidEvent
              /\ last'.calls = <<>>
              /\ currentJobId' = currentJobId
              /\ snapshots' = snapshots]_vars

\* C7: if every Do that HandleEvent calls returns nil, HandleEvent returns nil
\* and the snapshot stored under the returned id has Success = true, the
\* submitted event, one result per action registered at dispatch, in registry
\* order, and an empty pending list.
C7_AllSucceed ==
    (last.op = "HandleEvent" /\ \A i \in 1 .. Len(last.calls) : ~last.calls[i].failed)
        => /\ last.err = ErrNil
           /\ last.jobId \in DOMAIN snapshots
           /\ snapshots[last.jobId].Id = last.jobId
           /\ snapshots[last.jobId].Success
           /\ snapshots[last.jobId].Event = last.event
           /\ ResultNames(snapshots[last.jobId].ActionsResults) = hist[last.jobId].plan
           /\ CallNames(last.calls) = hist[last.jobId].plan
           /\ hist[last.jobId].plan = Registry
           /\ Pending(last.jobId) = <<>>

\* C7's case: a HandleEvent over a registry of two or more actions succeeded.
C7_Witness ==
    /\ last.op = "HandleEvent"
    /\ last.err = ErrNil
    /\ Len(Registry) >= 2
    /\ Len(last.calls) = Len(Registry)

\* C8: if the k-th registered action is the first whose Do fails during
\* HandleEvent, HandleEvent returns an error naming it, and the stored snapshot
\* has Success = false, the results of actions 1..k-1 in order, and as pending
\* list the k-th action followed by all later ones in registry order.
C8_FailAtKth ==
    (/\ last.op = "HandleEvent"
     /\ Len(last.calls) >= 1
     /\ last.calls[Len(last.calls)].failed)
        => LET k == Len(last.calls)
               plan == hist[last.jobId].plan
               snap == snapshots[last.jobId]
           IN /\ k <= Len(plan)
              /\ plan = Registry
              /\ CallNames(last.calls) = SubSeq(plan, 1, k)
              /\ \A i \in 1 .. k - 1 : ~last.calls[i].failed
              /\ last.err = ErrActionFailed(plan[k])
              /\ snap.Id = last.jobId
              /\ ~snap.Success
              /\ ResultNames(snap.ActionsResults) = SubSeq(plan, 1, k - 1)
              /\ Pending(last.jobId) = SubSeq(plan, k, Len(plan))

\* C8's case: a HandleEvent over three actions failed at the second.
C8_Witness ==
    /\ last.op = "HandleEvent"
    /\ Len(Registry) = 3
    /\ Len(last.calls) = 2
    /\ last.calls[2].failed

\* C9: every stored snapshot has Success = true exactly when its pending list
\* is empty.
C9_SuccessIffNoPending ==
    \A j \in DOMAIN snapshots :
        snapshots[j].Success <=> snapshots[j].actionsToProcess.len = 0

\* C9's case: the store holds a succeeded job that ran actions and a failed one.
C9_Witness ==
    \E i, j \in DOMAIN snapshots :
        /\ snapshots[i].Success
        /\ Len(snapshots[i].ActionsResults) >= 1
        /\ ~snapshots[j].Success

\* C10: RetryJob on a job whose snapshot has Success = true returns
\* ErrorSucceededJobRetryCall and invokes no action; and no call whatever
\* changes a snapshot whose Success is true (its fields, its results, its
\* pending list).
C10_SuccessIsTerminal ==
    [][/\ \A j \in DOMAIN snapshots :
              snapshots[j].Success
              => /\ j \in DOMAIN snapshots'
                 /\ snapshots'[j] = snapshots[j]
                 /\ Pending(j)' = Pending(j)
       /\ \A j \in DOMAIN snapshots :
              (last'.op = "RetryJob" /\ last'.jobId = j /\ snapshots[j].Success)
              => /\ last'.err = ErrorSucceededJobRetryCall
                 /\ last'.calls = <<>>]_vars

\* C10's case: a retry of a succeeded job that holds results was refused.
C10_Witness ==
    /\ last.op = "RetryJob"
    /\ last.err = ErrorSucceededJobRetryCall
    /\ snapshots[last.jobId].Success
    /\ Len(snapshots[last.jobId].ActionsResults) >= 1

\* C11: RetryJob with a negative id, or with an id no HandleEvent has
\* returned, returns ErrorInvalidJobId, invokes no action, and leaves the
\* registry (its slice and the arrays), the job id counter and the snapshot
\* store with its set of keys unchanged.
C11_InvalidRetryRejected ==
    [][(last'.op = "RetryJob" /\ (last'.jobId < 0 \/ last'.jobId \notin DOMAIN hist))
           => /\ last'.err = ErrorInvalidJobId
              /\ last'.calls = <<>>
              /\ actions' = actions
              /\ heap' = heap
              /\ currentJobId' = currentJobId
              /\ snapshots' = snapshots
              /\ DOMAIN snapshots' = DOMAIN snapshots]_vars

\* C11's case: with a job stored and actions registered, a retry of the next
\* id to assign (one no HandleEvent has returned yet) was refused.
C11_Witness ==
    /\ last.op = "RetryJob"
    /\ last.err = ErrorInvalidJobId
    /\ last.jobId = currentJobId
    /\ currentJobId >= 1
    /\ Len(Registry) >= 1

\* C12: every job id a HandleEvent has returned, whether its run succeeded or
\* failed, has a stored snapshot whose Id is that id, and a RetryJob on it is
\* never answered with ErrorInvalidJobId; the ids that hold a snapshot are
\* exactly 0 .. d.currentJobId - 1, so len(d.snapshots) is the counter.
C12_ReturnedIdsAreStored ==
    /\ DOMAIN hist = 0 .. currentJobId - 1
    /\ DOMAIN snapshots = DOMAIN hist
    /\ Cardinality(DOMAIN snapshots) = currentJobId
    /\ \A j \in DOMAIN hist : snapshots[j].Id = j
    /\ last.op = "HandleEvent" => last.jobId \in DOMAIN snapshots
    /\ (last.op = "RetryJob" /\ last.jobId \in DOMAIN hist) => last.err # ErrorInvalidJobId

\* C12's case: a retry of the id of a failed job, dispatched after a job that
\* succeeded, passed the validation and ran the engine.
C12_Witness ==
    /\ last.op = "RetryJob"
    /\ last.jobId = 1
    /\ RanEngine
    /\ Len(last.calls) >= 1
    /\ snapshots[0].Success

\* C13: the registry never holds two actions of the same Name; an AddAction of
\* a registered name returns an error and leaves the registry (length,
\* content, order) unchanged; an AddAction of a new name returns nil and puts
\* the action at the end, so that k adds of distinct names on an empty
\* registry give a registry of length k in the order of the calls.
C13_RegistryNamesUnique ==
    [][/\ \A i, k \in 1 .. Len(Registry') : Registry'[i] = Registry'[k] => i = k
       /\ (last'.op = "AddAction" /\ last'.action \in Range(Registry))
          => /\ last'.err = ErrActionExists(last'.action)
             /\ Registry' = Registry
       /\ (last'.op = "AddAction" /\ last'.action \notin Range(Registry))
          => /\ last'.err = ErrNil
             /\ Registry' = Append(Registry, last'.action)]_vars

\* C13's case: an AddAction of the second of three registered names was
\* refused.
C13_Witness ==
    /\ last.op = "AddAction"
    /\ last.err = ErrActionExists(last.action)
    /\ Len(Registry) = 3
    /\ Registry[2] = last.action

\* The sequence s without its elements equal to name.
Without(s, name) == SelectSeq(s, LAMBDA x : x # name)

\* C14: a RemoveAction of a name that is not registered returns an error and
\* leaves the registry unchanged; of a registered name it returns nil and
\* removes exactly that action, the others keeping their relative order.
C14_RemoveKeepsOrder ==
    [][/\ (last'.op = "RemoveAction" /\ last'.action \notin Range(Registry))
          => /\ last'.err = ErrActionMissing(last'.action)
             /\ Registry' = Registry
       /\ (last'.op = "RemoveAction" /\ last'.action \in Range(Registry))
          => /\ last'.err = ErrNil
             /\ Len(Registry') = Len(Registry) - 1
             /\ Registry' = Without(Registry, last'.action)]_vars

\* C14's case: after three actions were registered one of them was removed,
\* the other two remain.
C14_Witness ==
    /\ last.op = "RemoveAction"
    /\ last.err = ErrNil
    /\ Len(Registry) = 2
    /\ ncalls = 4
    /\ handled = 0

\* The pending list an attempt starts from: the registry for a HandleEvent,
\* the job's stored pending list for a RetryJob.
AttemptPending(op, jobId) == IF op = "HandleEvent" THEN Registry ELSE Pending(jobId)

\* C16: in one attempt (a HandleEvent, or a RetryJob that runs the engine) the
\* i-th Do call is made on the i-th pending action, so the pending actions are
\* invoked front to back and none twice; only the last call of the attempt can
\* have failed; when it has, the attempt returns the error naming it and the
\* stored pending list is the attempt's pending list from the failed action
\* on, the failed action at its head; when none has, every pending action was
\* invoked.
C16_FrontToBackFailFast ==
    [][RanEngine'
           => LET before == AttemptPending(last'.op, last'.jobId)
                  names == CallNames(last'.calls)
                  n == Len(names)
              IN /\ IsPrefix(names, before)
                 /\ \A i, k \in 1 .. n : names[i] = names[k] => i = k
                 /\ \A i \in 1 .. n - 1 : ~last'.calls[i].failed
                 /\ \A j \in DOMAIN snapshots' :
                        j = last'.jobId
                        => IF n >= 1 /\ last'.calls[n].failed
                           THEN /\ last'.err = ErrActionFailed(names[n])
                                /\ Pending(j)' = SubSeq(before, n, Len(before))
                                /\ Pending(j)'[1] = names[n]
                           ELSE /\ last'.err = ErrNil
                                /\ n = Len(before)
                                /\ Pending(j)' = <<>>]_vars

\* C16's case: an attempt over three pending actions failed at the second and
\* left the third uninvoked.
C16_Witness ==
    /\ RanEngine
    /\ Len(last.calls) = 2
    /\ last.calls[2].failed
    /\ Len(Pending(last.jobId)) = 2
    /\ Pending(last.jobId)[1] = last.calls[2].Name

\* C17: no call changes the stored snapshot (its fields, its results, its
\* pending list) of a job other than the one whose attempt it runs: a
\* HandleEvent changes none that existed, a RetryJob(j) none but j's, an
\* AddAction, a RemoveAction or a refused RetryJob none at all; and a
\* HandleEvent or a RetryJob leaves the registry as it was.
C17_OnlyOwnSnapshotChanges ==
    [][/\ \A j \in DOMAIN snapshots :
              ~(RanEngine' /\ last'.jobId = j)
              => /\ j \in DOMAIN snapshots'
                 /\ snapshots'[j] = snapshots[j]
                 /\ Pending(j)' = Pending(j)
       /\ last'.op \in {"HandleEvent", "RetryJob"}
          => /\ actions' = actions
             /\ Registry' = Registry]_vars

\* C17's case: a retry ran actions of job 0 while a failed job 1 was stored
\* and actions were registered.
C17_Witness ==
    /\ last.op = "RetryJob"
    /\ RanEngine
    /\ last.jobId = 0
    /\ Len(last.calls) >= 1
    /\ 1 \in DOMAIN snapshots
    /\ ~snapshots[1].Success
    /\ Len(Registry) >= 1

\* C18: every Do call made by a RetryJob(j) receives the event and the context
\* that were passed to the HandleEvent that created job j, and the snapshot
\* stored for j holds that event and that context whatever retries were made.
C18_RetryKeepsEventAndContext ==
    /\ \A j \in DOMAIN snapshots :
           /\ snapshots[j].Event = hist[j].event
           /\ snapshots[j].Context = hist[j].ctx
    /\ (last.op = "RetryJob" /\ RanEngine)
       => \A i \in 1 .. Len(last.calls) :
              /\ last.calls[i].Input = hist[last.jobId].event
              /\ last.calls[i].Context = hist[last.jobId].ctx

\* C18's case: a retry of a job dispatched with a present event and a
\* cancelled context made a Do call.
C18_Witness ==
    /\ last.op = "RetryJob"
    /\ RanEngine
    /\ Len(last.calls) >= 1
    /\ hist[last.jobId].ctx = "cancelled"
    /\ hist[last.jobId].event # NilEvent

\* C19: the engine does not look at the context. An attempt (HandleEvent or
\* RetryJob) made under a cancelled context in which no Do returns an error
\* invokes every pending action in order, returns nil and leaves the job
\* succeeded; and an attempt under any context returns an error only when its
\* last Do call returned one.
C19_CancelledContextIgnored ==
    [][RanEngine'
           => LET n == Len(last'.calls) IN
              /\ (last'.ctx = "cancelled" /\ \A i \in 1 .. n : ~last'.calls[i].failed)
                 => /\ last'.err = ErrNil
                    /\ CallNames(last'.calls) = AttemptPending(last'.op, last'.jobId)
                    /\ \A i \in 1 .. n : last'.calls[i].Context = "cancelled"
                    /\ \A j \in DOMAIN snapshots' :
                           j = last'.jobId
                           => snapshots'[j].Success /\ Pending(j)' = <<>>
              /\ last'.err # ErrNil => (n >= 1 /\ last'.calls[n].failed)]_vars

\* C19's case: a retry under a cancelled context invoked two pending actions
\* and succeeded.
C19_Witness ==
    /\ last.op = "RetryJob"
    /\ last.ctx = "cancelled"
    /\ last.err = ErrNil
    /\ Len(last.calls) = 2
    /\ snapshots[last.jobId].Success

\* Caller c is between a Lock and the Unlock that follows it, in the call it
\* made or in one that made the call it is in.
InCritical(c) == \E i \in 1 .. Depth(c) : stacks[c][i].pc # "lock"

\* Caller c is inside the Do of an action.
InDo(c) == \E i \in 1 .. Depth(c) : stacks[c][i].pc = "do"

NoRepeat(s) == \A i, k \in 1 .. Len(s) : s[i] = s[k] => i = k

\* C15: whatever the interleaving of the callers, at most one of them is
\* between the Lock and the Unlock of an operation, at most one is inside a
\* Do, the job ids taken by HandleEvent calls are pairwise distinct (as many
\* ids as calls that took one), and the registry a HandleEvent copies is one
\* no AddAction or RemoveAction is in the middle of changing: the copy in hand
\* is the registry, and no plan holds a name twice.
C15_OneOperationAtATime ==
    /\ Cardinality({c \in Callers : InCritical(c)}) <= 1
    /\ Cardinality({c \in Callers : InDo(c)}) <= 1
    /\ Cardinality(DOMAIN hist) = handled
    /\ \A c, d \in Callers :
           (/\ c # d
            /\ Depth(c) > 0 /\ Top(c).op = "HandleEvent" /\ Top(c).jobId # NoJob
            /\ Depth(d) > 0 /\ Top(d).op = "HandleEvent" /\ Top(d).jobId # NoJob)
           => Top(c).jobId # Top(d).jobId
    /\ \A c \in Callers : At(c, "takeid") => View(heap, Top(c).slice) = Registry
    /\ \A j \in DOMAIN hist : NoRepeat(hist[j].plan)

\* C15's case: a second HandleEvent waits in Lock while the Do of an action of
\* the first one, which has taken its job id, runs.
C15_Witness ==
    \E c, d \in Callers :
        /\ At(c, "do") /\ Top(c).op = "HandleEvent" /\ Top(c).jobId = 0
        /\ At(d, "lock") /\ Top(d).op = "HandleEvent"
        /\ mu
        /\ Len(Registry) >= 1

\* Some action has called the dispatcher from inside its Do.
Reentered == \E c \in Callers : Depth(c) >= 2

\* C20: if no action ever calls the dispatcher from inside Do, every call of
\* the four operations returns, whatever the interleaving; the mutex is
\* unlocked when a call has returned, on the error returns as on the others;
\* and a caller whose action has called the dispatcher from inside Do never
\* takes another step, the mutex staying locked.
C20_CallsReturnAndUnlock ==
    /\ ([]~Reentered) => \A c \in Callers : (Depth(c) > 0) ~> (Depth(c) = 0)
    /\ [][\A c \in Callers : (Depth(c) = 1 /\ Depth(c)' = 0) => ~mu']_vars
    /\ [][\A c \in Callers : Depth(c) >= 2 => (stacks'[c] = stacks[c] /\ mu')]_vars

\* C20's case: every caller is back from its calls, three or more, the last
\* of which returned the error of a failing action, and the mutex is unlocked.
C20_Witness ==
    /\ \A c \in Callers : Depth(c) = 0
    /\ ~mu
    /\ ncalls >= 3
    /\ last.err.kind = "action failed"
    /\ handled >= 1

====
